---- MODULE Spec2Model ----
(***************************************************************************)
(* A model of the folder <-> text round-trip tools:                        *)
(*   folder2txt.js              (serializer: countFiles, walk, writeFile)  *)
(*   restoreFolderStructure.js  (deserializer: parseFileHeader,            *)
(*                               sanitizePath, processOutputFile)          *)
(*   stripUnwantedComments.js   (comment stripper, artifact cleaner)       *)
(*                                                                         *)
(* A JavaScript string is a sequence of one-character strings.  The few    *)
(* code units that have no ASCII form carry a name: "BOM" is U+FEFF,       *)
(* "ZW" is U+200B, "LDQ"/"RDQ" are the curly double quotes and             *)
(* "LSQ"/"RSQ" the curly single quotes, "BT" is the backtick.  A path of   *)
(* the file system is a sequence of segments, each a string.               *)
(***************************************************************************)
EXTENDS Integers, Sequences, FiniteSets, TLC

(***************************************************************************)
(* State                                                                   *)
(***************************************************************************)

\* The deserializer (processOutputFile).
VARIABLES
  variant,                \* "A": the first script of the file, "B": the second
  lines,                  \* the input document, split into lines
  pos,                    \* how many lines the loop has read
  pc,                     \* "loop", "done", or "threw" (an uncaught fs error)
  currentFileHeaderPath,
  currentFileLines,
  files,                  \* the regular files: path -> content
  dirs,                   \* the directories
  restoredFileCount,
  bufIdx,                 \* history: the input positions of currentFileLines
  opened,                 \* history: the input positions that opened a record
  maybePaths,             \* history: what parseFileHeader returned, per line
  log                     \* history: the writes, in order

dvars == <<variant, lines, pos, pc, currentFileHeaderPath, currentFileLines,
           files, dirs, restoredFileCount, bufIdx, opened, maybePaths, log>>

\* The artifact cleaner, applied to a text and to its own result.
VARIABLES
  cleaner,     \* which of the two cleaners runs
  cleanIn,     \* the text given to it
  cleaned      \* the results of its successive applications

cvars == <<cleaner, cleanIn, cleaned>>

\* The comment stripper (stripUnwantedComments).
VARIABLES
  sVariant,    \* "block": the script with inBlock, "plain": the one without
  sText,       \* the content of the input file
  sLines,      \* the lines the loop reads
  sPos,        \* how many of them it has read
  sPc,         \* "read", "loop", "done"
  out,         \* out / resultLines
  blanks,      \* blanks / blankStreak
  inBlock,
  keptIdx,     \* history: the positions of the lines pushed to out
  sResult      \* the content written to the output file

svars == <<sVariant, sText, sLines, sPos, sPc, out, blanks, inBlock, keptIdx, sResult>>

\* The serializer (processFolder of folder2txt.js).
VARIABLES
  wVariant,    \* "folder2txt": folder2txt.js, "part_000": the older serializer
  ignoreConfig, \* ignore.json: the folder patterns and the file patterns
  tree,        \* the entries of folderPath, in listing order, nested
  wPc,         \* "count", "counted", "aborted", "walk", "ended", "threw"
  stack,       \* the calls of countFiles or walk in progress, innermost last
  total,       \* what countFiles(folderPath) returned
  outDirMade,  \* the directory of outputPath has been created
  outOpen,     \* the output stream has been created
  outText,     \* what has been written to the stream
  emitted      \* history: the files handed to writeFile, with what was written

wvars == <<wVariant, ignoreConfig, tree, wPc, stack, total, outDirMade, outOpen,
           outText, emitted>>

\* The unfencing functions, applied to a text.
VARIABLES
  unfencer,    \* "stripCodeFences" (folder2txt.js) or "stripCodeFence"
  fenceIn,     \* the text
  fenceOut     \* the results so far: none, or the one of the call

uvars == <<unfencer, fenceIn, fenceOut>>

vars == <<dvars, cvars, svars, wvars, uvars>>

(***************************************************************************)
(* Strings                                                                 *)
(***************************************************************************)

\* What \s and String.prototype.trim treat as white space (U+FEFF included).
IsSpace(c) == c \in {" ", "\t", "\r", "\n", "BOM"}

Drop(s, n) == SubSeq(s, n + 1, Len(s))

StartsWith(s, p) == Len(p) <= Len(s) /\ SubSeq(s, 1, Len(p)) = p

EndsWith(s, p) == Len(p) <= Len(s) /\ SubSeq(s, Len(s) - Len(p) + 1, Len(s)) = p

RECURSIVE TrimStart(_)
TrimStart(s) ==
  IF s # <<>> /\ IsSpace(Head(s)) THEN TrimStart(Tail(s)) ELSE s

RECURSIVE TrimEnd(_)
TrimEnd(s) ==
  IF s # <<>> /\ IsSpace(s[Len(s)]) THEN TrimEnd(SubSeq(s, 1, Len(s) - 1)) ELSE s

Trim(s) == TrimStart(TrimEnd(s))

\* text.split(/\r?\n/): the pieces between line breaks, at least one piece.
RECURSIVE SplitFrom(_, _, _)
SplitFrom(s, cur, acc) ==
  IF s = <<>> THEN Append(acc, cur)
  ELSE IF Head(s) = "\n" THEN SplitFrom(Tail(s), <<>>, Append(acc, cur))
  ELSE IF Head(s) = "\r" /\ Len(s) >= 2 /\ s[2] = "\n"
       THEN SplitFrom(Drop(s, 2), <<>>, Append(acc, cur))
  ELSE SplitFrom(Tail(s), Append(cur, Head(s)), acc)

SplitLines(s) == SplitFrom(s, <<>>, <<>>)

\* lines.join("\n")
RECURSIVE JoinLines(_)
JoinLines(ls) ==
  IF ls = <<>> THEN <<>>
  ELSE IF Len(ls) = 1 THEN ls[1]
  ELSE ls[1] \o <<"\n">> \o JoinLines(Tail(ls))

\* The value null of a path variable: no string equals it.
NULL == << "<null>" >>

FileTok == <<"F", "i", "l", "e", ":">>

(***************************************************************************)
(* Header recognizer of the deserializer                                   *)
(***************************************************************************)

\* ^\s*<opener>\s*File: at the start of the line: the text after "File:",
\* or NULL when the line does not start that way.
AfterFileToken(line, opener) ==
  LET a == TrimStart(line) IN
  IF ~StartsWith(a, opener) THEN NULL
  ELSE LET b == TrimStart(Drop(a, Len(opener))) IN
       IF StartsWith(b, FileTok) THEN Drop(b, Len(FileTok)) ELSE NULL

\* /^\s*\/\*\s*File:\s*(.*?)\s*\*\/\s*$/ : match[1].trim(), or NULL.
blockCommentMatch(line) ==
  LET r == AfterFileToken(line, <<"/", "*">>) IN
  IF r = NULL THEN NULL
  ELSE LET t == TrimEnd(r) IN
       IF EndsWith(t, <<"*", "/">>) THEN Trim(SubSeq(t, 1, Len(t) - 2)) ELSE NULL

\* /^\s*\/\/\s*File:\s*(.*?)\s*$/ : match[1].trim(), or NULL.
lineCommentMatch(line) ==
  LET r == AfterFileToken(line, <<"/", "/">>) IN
  IF r = NULL THEN NULL ELSE Trim(r)

\* /^\s*--\s*File:\s*(.*?)\s*$/ : match[1].trim(), or NULL.
dashCommentMatch(line) ==
  LET r == AfterFileToken(line, <<"-", "-">>) IN
  IF r = NULL THEN NULL ELSE Trim(r)

\* parseFileHeader of the first script (block, line and dash styles).
parseFileHeaderA(line) ==
  LET t == TrimEnd(line) IN
  IF blockCommentMatch(t) # NULL THEN blockCommentMatch(t)
  ELSE IF lineCommentMatch(t) # NULL THEN lineCommentMatch(t)
  ELSE IF dashCommentMatch(t) # NULL THEN dashCommentMatch(t)
  ELSE NULL

\* parseFileHeader of the second script (block and line styles only).
parseFileHeaderB(line) ==
  LET t == TrimEnd(line) IN
  IF blockCommentMatch(t) # NULL THEN blockCommentMatch(t)
  ELSE IF lineCommentMatch(t) # NULL THEN lineCommentMatch(t)
  ELSE NULL

parseFileHeader(v, line) ==
  IF v = "A" THEN parseFileHeaderA(line) ELSE parseFileHeaderB(line)

(***************************************************************************)
(* Paths (the POSIX flavour of node's path module)                         *)
(***************************************************************************)

UpperCase ==
  <<"A", "B", "C", "D", "E", "F", "G", "H", "I", "J", "K", "L", "M", "N", "O",
    "P", "Q", "R", "S", "T", "U", "V", "W", "X", "Y", "Z">>

LowerCase ==
  <<"a", "b", "c", "d", "e", "f", "g", "h", "i", "j", "k", "l", "m", "n", "o",
    "p", "q", "r", "s", "t", "u", "v", "w", "x", "y", "z">>

\* [A-Za-z]
Letters == {UpperCase[i] : i \in 1..Len(UpperCase)} \cup {LowerCase[i] : i \in 1..Len(LowerCase)}

IsSep(c) == c \in {"/", "\\"}

RECURSIVE DropSeps(_)
DropSeps(s) == IF s # <<>> /\ IsSep(Head(s)) THEN DropSeps(Tail(s)) ELSE s

HasDrive(s) == Len(s) >= 2 /\ s[1] \in Letters /\ s[2] = ":"

\* filePath.replace(/^([A-Za-z]:)?[\\/]+/, ''): the drive letter goes only
\* together with the separators that follow it.
sanitizePath(filePath) ==
  IF HasDrive(filePath) /\ Len(filePath) >= 3 /\ IsSep(filePath[3])
    THEN DropSeps(Drop(filePath, 2))
  ELSE IF filePath # <<>> /\ IsSep(Head(filePath)) THEN DropSeps(filePath)
  ELSE filePath

\* The pieces of a path between its "/" characters.
RECURSIVE SegmentsFrom(_, _, _)
SegmentsFrom(s, cur, acc) ==
  IF s = <<>> THEN Append(acc, cur)
  ELSE IF Head(s) = "/" THEN SegmentsFrom(Tail(s), <<>>, Append(acc, cur))
  ELSE SegmentsFrom(Tail(s), Append(cur, Head(s)), acc)

Segments(s) == SegmentsFrom(s, <<>>, <<>>)

\* path.normalize on an absolute path: "" and "." vanish, ".." removes the
\* segment before it and stays at the root of the file system.
RECURSIVE Resolve(_, _)
Resolve(segs, acc) ==
  IF segs = <<>> THEN acc
  ELSE IF Head(segs) \in {<<>>, <<".">>} THEN Resolve(Tail(segs), acc)
  ELSE IF Head(segs) = <<".", ".">>
       THEN Resolve(Tail(segs), IF acc = <<>> THEN acc ELSE SubSeq(acc, 1, Len(acc) - 1))
  ELSE Resolve(Tail(segs), Append(acc, Head(segs)))

\* path.join(root, rel) for an absolute, normalized root and a non-empty rel:
\* the segments of the result, and whether it ends with a "/".
pathJoin(root, rel) ==
  [segs |-> Resolve(Segments(rel), root),
   slash |-> rel[Len(rel)] = "/"]

\* path.dirname of a joined path.
dirname(full) ==
  IF full.segs = <<>> THEN <<>> ELSE SubSeq(full.segs, 1, Len(full.segs) - 1)

RECURSIVE DropTrailingSlashes(_)
DropTrailingSlashes(s) ==
  IF s # <<>> /\ s[Len(s)] = "/" THEN DropTrailingSlashes(SubSeq(s, 1, Len(s) - 1)) ELSE s

basename(p) ==
  LET segs == Segments(DropTrailingSlashes(p)) IN segs[Len(segs)]

\* path.extname: from the last "." of the base name, unless that "." is the
\* first character of the base name or the base name is "..".
extname(p) ==
  LET b == basename(p)
      dots == {i \in 1..Len(b) : b[i] = "."}
  IN IF dots = {} \/ b = <<".", ".">> THEN <<>>
     ELSE LET last == CHOOSE i \in dots : \A j \in dots : j <= i IN
          IF last = 1 THEN <<>> ELSE SubSeq(b, last, Len(b))

ToLowerChar(c) ==
  IF \E i \in 1..Len(UpperCase) : UpperCase[i] = c
    THEN LowerCase[CHOOSE i \in 1..Len(UpperCase) : UpperCase[i] = c]
    ELSE c

RECURSIVE toLowerCase(_)
toLowerCase(s) ==
  IF s = <<>> THEN <<>> ELSE <<ToLowerChar(Head(s))>> \o toLowerCase(Tail(s))

DotJson == <<".", "j", "s", "o", "n">>

isJsonCaseSensitive(sanitized) == extname(sanitized) = DotJson

\* path.extname(sanitized).toLowerCase() === '.json'
isJson(sanitized) == toLowerCase(extname(sanitized)) = DotJson

\* dirname(inputAbsolutePath) and path.join(baseDir, 'restored-data')
BaseDir == << <<"h">>, <<"w">> >>

restoreRoot == Append(BaseDir, <<"restored-data">>)

\* Every proper or improper prefix of a path, the empty one (the root) too.
Prefixes(segs) == {SubSeq(segs, 1, n) : n \in 0..Len(segs)}

Inside(root, segs) == Len(segs) >= Len(root) /\ SubSeq(segs, 1, Len(root)) = root

(***************************************************************************)
(* Input lines of the deserializer                                         *)
(***************************************************************************)

Sp == <<" ">>
SlashSlash == <<"/", "/">>
BlockOpen == <<"/", "*">>
BlockClose == <<"*", "/">>
DashDash == <<"-", "-">>
Hash == <<"#">>
HtmlOpen == <<"<", "!", "-", "-">>
HtmlClose == <<"-", "-", ">">>
Fence == <<"BT", "BT", "BT">>

PathA == <<"a", ".", "t">>
PathAbsA == <<"/", "a", ".", "t">>
PathJson == <<"b", ".", "j", "s", "o", "n">>
PathUpperJson == <<"E", ".", "J", "S", "O", "N">>
PathEscape == <<".", ".", "/", "y", "/", "x">>
PathSql == <<"q", ".", "s", "q", "l">>
PathPy == <<"c", ".", "p", "y">>
PathHtml == <<"d", ".", "h", "t", "m">>
PathDrive == <<"C", ":", "e", ".", "t">>
PathRootOnly == <<"/">>
PathDriveOnly == <<"C", ":">>

\* The header lines the serializer writes, one per comment syntax.
slashHeader(rel) == SlashSlash \o Sp \o FileTok \o Sp \o rel
blockHeader(rel) == BlockOpen \o Sp \o FileTok \o Sp \o rel \o Sp \o BlockClose
hashHeader(rel) == Hash \o Sp \o FileTok \o Sp \o rel
htmlHeader(rel) == HtmlOpen \o Sp \o FileTok \o Sp \o rel \o Sp \o HtmlClose
dashHeader(rel) == DashDash \o Sp \o FileTok \o Sp \o rel

BodyLine == <<"x">>
NoteLine == SlashSlash \o Sp \o <<"n">>
EmptyHeader == SlashSlash \o Sp \o FileTok

\* The lines a document is made of.
LinePool ==
  { slashHeader(PathA), slashHeader(PathAbsA), blockHeader(PathJson),
    slashHeader(PathUpperJson), slashHeader(PathEscape), dashHeader(PathSql),
    hashHeader(PathPy), htmlHeader(PathHtml), slashHeader(PathDrive),
    slashHeader(PathRootOnly), slashHeader(PathDriveOnly), EmptyHeader, Fence,
    BodyLine, NoteLine }

MaxLines == 3

RECURSIVE SeqsUpTo(_, _)
SeqsUpTo(S, n) ==
  IF n = 0 THEN {<<>>}
  ELSE LET shorter == SeqsUpTo(S, n - 1) IN
       shorter \cup {Append(q, e) : q \in {r \in shorter : Len(r) = n - 1}, e \in S}

\* split() yields at least one line.
Documents == SeqsUpTo(LinePool, MaxLines) \ {<<>>}

(***************************************************************************)
(* The deserializer: processOutputFile                                     *)
(***************************************************************************)

NoFiles == [p \in {} |-> <<>>]

\* A JavaScript string or null used as a condition.
Truthy(v) == v # NULL /\ v # <<>>

\* fs.mkdirSync(dirPath, {recursive: true}) fails on a path through a file.
mkdirFails(dirPath, fs) == \E p \in Prefixes(dirPath) : p \in DOMAIN fs

\* fs.writeFileSync fails on a directory and on a path ending with "/".
writeFails(full, ds) == full.slash \/ full.segs \in ds

\* A loop that appends whether or not a record is open.
recordOpenAlways(headerPath) == TRUE

\* if (currentFileHeaderPath), the test of the loop before it appends.
recordOpen(headerPath) == Truthy(headerPath)

\* A write that leaves an existing file as it is.
writeFileSyncKeepFirst(store, path, content) == store @@ (path :> content)

\* fs.writeFileSync(path, content): the file is created or replaced.
writeFileSync(store, path, content) == (path :> content) @@ store

\* A counter that the statement leaves as it was.
postIncrementLost(count) == count

\* restoredFileCount++
postIncrement(count) == count + 1

\* writeCurrentFile: what one call does to the state.
writeCurrentFile ==
  LET idle == [threw |-> FALSE, wrote |-> FALSE, files |-> files, dirs |-> dirs,
               lines |-> currentFileLines, count |-> restoredFileCount, log |-> log]
  IN
  IF ~(Truthy(currentFileHeaderPath) /\ Len(currentFileLines) > 0) THEN idle
  ELSE
    LET sanitized == sanitizePath(currentFileHeaderPath) IN
    IF sanitized = <<>> THEN idle
    ELSE
      LET fullFilePath == pathJoin(restoreRoot, sanitized)
          dirPath == dirname(fullFilePath)
          newDirs == dirs \cup Prefixes(dirPath)
          json == isJson(sanitized)
          kept == IF json THEN Tail(currentFileLines) ELSE currentFileLines
          content == JoinLines(kept)
      IN
      IF mkdirFails(dirPath, files) THEN [idle EXCEPT !.threw = TRUE]
      ELSE IF writeFails(fullFilePath, newDirs)
        THEN [idle EXCEPT !.threw = TRUE, !.dirs = newDirs, !.lines = kept]
      ELSE [threw |-> FALSE, wrote |-> TRUE,
            files |-> writeFileSync(files, fullFilePath.segs, content),
            dirs |-> newDirs,
            lines |-> kept,
            count |-> postIncrement(restoredFileCount),
            log |-> Append(log, [path |-> fullFilePath.segs,
                                 headerPath |-> currentFileHeaderPath,
                                 content |-> content,
                                 buffer |-> currentFileLines,
                                 idxs |-> bufIdx,
                                 written |-> IF json THEN Tail(bufIdx) ELSE bufIdx])]

\* processOutputFile up to its loop, on one of the documents docs.
DStart(docs) ==
  /\ variant \in {"A", "B"}
  /\ lines \in docs
  /\ pos = 0
  /\ pc = "loop"
  /\ currentFileHeaderPath = NULL
  /\ currentFileLines = <<>>
  /\ files = NoFiles
  /\ dirs = Prefixes(restoreRoot)
  /\ restoredFileCount = 0
  /\ bufIdx = <<>>
  /\ opened = {}
  /\ maybePaths = <<>>
  /\ log = <<>>

\* processOutputFile up to its loop, on a document of the bounded pool.
DInit == DStart(Documents)

\* A loop iteration on a line parseFileHeader decodes: flush, open a record.
HeaderLine ==
  /\ pc = "loop" /\ pos < Len(lines)
  /\ LET line == lines[pos + 1]
         maybePath == parseFileHeader(variant, line)
         w == writeCurrentFile
     IN /\ maybePath # NULL
        /\ pos' = pos + 1
        /\ maybePaths' = Append(maybePaths, maybePath)
        /\ files' = w.files /\ dirs' = w.dirs
        /\ restoredFileCount' = w.count /\ log' = w.log
        /\ IF w.threw
             THEN /\ pc' = "threw"
                  /\ currentFileLines' = w.lines
                  /\ UNCHANGED <<currentFileHeaderPath, bufIdx, opened>>
             ELSE /\ pc' = "loop"
                  /\ currentFileHeaderPath' = maybePath
                  /\ currentFileLines' = <<line>>
                  /\ bufIdx' = <<pos + 1>>
                  /\ opened' = opened \cup {pos + 1}
  /\ UNCHANGED <<variant, lines>>
  /\ UNCHANGED <<cvars, svars, wvars, uvars>>

\* A loop iteration on any other line while a record is open: append.
ContentLine ==
  /\ pc = "loop" /\ pos < Len(lines)
  /\ LET line == lines[pos + 1] IN
     /\ parseFileHeader(variant, line) = NULL
     /\ recordOpen(currentFileHeaderPath)
     /\ currentFileLines' = Append(currentFileLines, line)
     /\ bufIdx' = Append(bufIdx, pos + 1)
  /\ pos' = pos + 1
  /\ maybePaths' = Append(maybePaths, NULL)
  /\ UNCHANGED <<variant, lines, pc, currentFileHeaderPath, files, dirs,
                 restoredFileCount, opened, log>>
  /\ UNCHANGED <<cvars, svars, wvars, uvars>>

\* A loop iteration on any other line while no record is open: nothing.
OrphanLine ==
  /\ pc = "loop" /\ pos < Len(lines)
  /\ parseFileHeader(variant, lines[pos + 1]) = NULL
  /\ ~recordOpen(currentFileHeaderPath)
  /\ pos' = pos + 1
  /\ maybePaths' = Append(maybePaths, NULL)
  /\ UNCHANGED <<variant, lines, pc, currentFileHeaderPath, currentFileLines,
                 files, dirs, restoredFileCount, bufIdx, opened, log>>
  /\ UNCHANGED <<cvars, svars, wvars, uvars>>

\* After the loop: the final writeCurrentFile.
FinalFlush ==
  /\ pc = "loop" /\ pos = Len(lines)
  /\ LET w == writeCurrentFile IN
     /\ pc' = IF w.threw THEN "threw" ELSE "done"
     /\ files' = w.files /\ dirs' = w.dirs
     /\ restoredFileCount' = w.count /\ log' = w.log
     /\ currentFileLines' = w.lines
  /\ UNCHANGED <<variant, lines, pos, currentFileHeaderPath, bufIdx, opened, maybePaths>>
  /\ UNCHANGED <<cvars, svars, wvars, uvars>>

\* The deserializer before it runs, and in the runs of the other tools.
DIdle ==
  /\ variant = "A"
  /\ lines = <<>>
  /\ pos = 0
  /\ pc = "idle"
  /\ currentFileHeaderPath = NULL
  /\ currentFileLines = <<>>
  /\ files = NoFiles
  /\ dirs = Prefixes(restoreRoot)
  /\ restoredFileCount = 0
  /\ bufIdx = <<>>
  /\ opened = {}
  /\ maybePaths = <<>>
  /\ log = <<>>

(***************************************************************************)
(* Claims about the deserializer                                           *)
(***************************************************************************)

\* The lines of the input at the positions idxs, in that order.
RECURSIVE LinesAt(_)
LinesAt(idxs) ==
  IF idxs = <<>> THEN <<>> ELSE <<lines[Head(idxs)]>> \o LinesAt(Tail(idxs))

LogIdx == 1..Len(log)

\* A fence delimiter: a line that is a triple backtick and, maybe, a tag.
IsFenceLine(l) == StartsWith(Trim(l), Fence)

FencesBefore(i) == Cardinality({j \in 1..(i - 1) : IsFenceLine(lines[j])})

\* Line i lies between an opening fence line and its closing fence line.
BetweenFences(i) ==
  /\ ~IsFenceLine(lines[i])
  /\ FencesBefore(i) % 2 = 1
  /\ \E j \in (i + 1)..Len(lines) : IsFenceLine(lines[j])

Range(q) == {q[k] : k \in 1..Len(q)}

\* C2: a line between an opening fence line and its closing fence line is
\* never treated as a header (it opens no record) and is never written to
\* any file.
C2_FenceSuppression ==
  \A i \in 1..pos :
    BetweenFences(i) =>
      /\ i \notin opened
      /\ \A k \in LogIdx : i \notin Range(log[k].written)

\* C3: every file the deserializer writes and every directory it creates
\* lies inside the output root restored-data.
C3_WriteContainment ==
  /\ \A p \in DOMAIN files : Inside(restoreRoot, p)
  /\ \A d \in dirs \ Prefixes(restoreRoot) : Inside(restoreRoot, d)

\* C4: the path joined to the output root at write time starts with neither
\* a path separator nor a drive-letter prefix.
C4_SanitizedPath ==
  \A k \in LogIdx :
    LET joined == sanitizePath(log[k].headerPath) IN
    /\ ~IsSep(Head(joined))
    /\ ~HasDrive(joined)

\* The dedicated header lines of the five comment syntaxes, for a path p.
HeaderForms(p) ==
  {slashHeader(p), blockHeader(p), hashHeader(p), htmlHeader(p), dashHeader(p)}

PoolPaths ==
  {PathA, PathAbsA, PathJson, PathUpperJson, PathEscape, PathSql, PathPy,
   PathHtml, PathDrive, PathRootOnly}

\* C5: parseFileHeader returns the decoded path for a dedicated header line
\* in each of the five comment syntaxes, and null for a comment line without
\* the File: token.
C5_RecognizerCoverage ==
  \A i \in 1..pos :
    /\ \A p \in PoolPaths : lines[i] \in HeaderForms(p) => maybePaths[i] = p
    /\ lines[i] = NoteLine => maybePaths[i] = NULL

\* The extension of p is .json, in any letter case.
HasJsonExtension(p) ==
  LET b == basename(p) IN
  /\ Len(b) > Len(DotJson)
  /\ toLowerCase(SubSeq(b, Len(b) - Len(DotJson) + 1, Len(b))) = DotJson

\* The record opened at position i holds only its header line.
HeaderOnlyAt(i) == i = Len(lines) \/ (i + 1) \in opened

\* C7: a record whose sanitized path has the extension .json (any letter
\* case) is written as its buffered lines without the first, joined by \n;
\* every other record as all its buffered lines, the header line included;
\* a .json record holding only its header line is written as an empty file.
C7_JsonHeaderPolicy ==
  /\ \A k \in LogIdx :
       LET e == log[k]
           buf == LinesAt(e.idxs)
       IN /\ e.buffer = buf
          /\ e.content = JoinLines(IF HasJsonExtension(sanitizePath(e.headerPath))
                                     THEN Tail(buf) ELSE buf)
  /\ \A p \in DOMAIN files :
       \E k \in LogIdx :
         /\ log[k].path = p /\ files[p] = log[k].content
         /\ \A m \in LogIdx : m > k => log[m].path # p
  /\ pc = "done" =>
       \A i \in opened :
         LET san == sanitizePath(maybePaths[i]) IN
         (HeaderOnlyAt(i) /\ san # <<>> /\ HasJsonExtension(san)) =>
           \E k \in LogIdx :
             /\ log[k].idxs = <<i>> /\ log[k].content = <<>>
             /\ log[k].path \in DOMAIN files

\* A .json record of one line was written as an empty file, a .json record
\* with a body without its header, and another record with its header.
C7_Witness ==
  /\ pc = "done"
  /\ \E k \in LogIdx :
       /\ HasJsonExtension(sanitizePath(log[k].headerPath))
       /\ Len(log[k].idxs) = 1 /\ files[log[k].path] = <<>>
  /\ \E k \in LogIdx :
       /\ ~HasJsonExtension(sanitizePath(log[k].headerPath))
       /\ Len(log[k].idxs) = 2
       /\ files[log[k].path] = lines[log[k].idxs[1]] \o <<"\n">> \o lines[log[k].idxs[2]]

\* A line the recognizer decodes to a path, an empty path not counting.
IsHeaderAt(i) == Truthy(parseFileHeader(variant, lines[i]))

\* The positions from header i up to, and excluding, the next header.
RECURSIVE SegmentFrom(_)
SegmentFrom(i) ==
  IF i < Len(lines) /\ ~IsHeaderAt(i + 1) THEN <<i>> \o SegmentFrom(i + 1) ELSE <<i>>

\* C10: each header line flushes the open record and opens one seeded with
\* the header line; the following non-header lines are appended in document
\* order, so that each record flushed consists of its header line and the
\* lines up to the next header or the end of input, the last record being
\* flushed at the end of input.
C10_Segmentation ==
  pc = "done" =>
    /\ \A i \in 1..Len(lines) :
         (IsHeaderAt(i) /\ sanitizePath(parseFileHeader(variant, lines[i])) # <<>>) =>
           \E k \in LogIdx : log[k].idxs = SegmentFrom(i)
    /\ \A k \in LogIdx :
         /\ IsHeaderAt(log[k].idxs[1])
         /\ log[k].idxs = SegmentFrom(log[k].idxs[1])
         /\ log[k].buffer = LinesAt(log[k].idxs)
    /\ \A k, m \in LogIdx : k < m => log[k].idxs[1] < log[m].idxs[1]

\* C14: a comment line with the File: token and an empty path is no header
\* for the deserializer: parseFileHeader gives null for it, it opens no
\* record and closes none, and when a record is open it is appended to the
\* buffer of that record like any other line, as are the lines after it.
C14_MalformedHeader ==
  \A i \in 1..pos :
    lines[i] = EmptyHeader =>
      /\ maybePaths[i] = NULL
      /\ i \notin opened
      /\ ( /\ pc = "loop"
           /\ \E h \in opened : h < i
           /\ \A j \in i..pos : ~Truthy(parseFileHeader(variant, lines[j])) )
         => /\ Truthy(currentFileHeaderPath)
            /\ bufIdx # <<>>
            /\ bufIdx[Len(bufIdx)] = pos

\* C15: when several records of a document decode to the same sanitized
\* path, the file at that path holds exactly the content of the last of them:
\* each write replaces the file, none fails and none is merged with another.
C15_LastWriteWins ==
  /\ \A k \in LogIdx :
       log[k].path = pathJoin(restoreRoot, sanitizePath(log[k].headerPath)).segs
  /\ \A p \in DOMAIN files :
       LET ks == {k \in LogIdx : log[k].path = p} IN
       /\ ks # {}
       /\ files[p] = log[CHOOSE k \in ks : \A m \in ks : m <= k].content
  /\ \A i, j \in opened :
       ( /\ i < j
         /\ pc = "done"
         /\ sanitizePath(maybePaths[i]) = sanitizePath(maybePaths[j])
         /\ sanitizePath(maybePaths[j]) # <<>> )
       => /\ \E k \in LogIdx : log[k].idxs[1] = i
          /\ \E k \in LogIdx : log[k].idxs[1] = j

\* Two records with different header texts and different contents have
\* been written to one path.
C15_Witness ==
  /\ pc = "done"
  /\ \E k, m \in LogIdx :
       /\ k < m
       /\ log[k].path = log[m].path
       /\ log[k].headerPath # log[m].headerPath
       /\ log[k].content # log[m].content
       /\ files[log[m].path] = log[m].content

\* C16: a line that precedes the first line parseFileHeader recognizes is
\* discarded: it is never in the buffer and it is in no written file.  A
\* line that precedes the first header with a path is in no written file.
C16_OrphanLines ==
  \A i \in 1..pos :
    /\ (\A j \in 1..i : maybePaths[j] = NULL) =>
         /\ i \notin Range(bufIdx)
         /\ i = pos => currentFileLines = <<>> /\ currentFileHeaderPath = NULL
         /\ \A k \in LogIdx : i \notin Range(log[k].idxs)
    /\ (\A j \in 1..i : ~IsHeaderAt(j)) =>
         /\ \A k \in LogIdx : i \notin Range(log[k].idxs)
         /\ i = pos => files = NoFiles

\* A line of code came first, then a header whose record has been written.
C16_Witness ==
  /\ pc = "done"
  /\ lines[1] = BodyLine
  /\ \E k \in LogIdx : log[k].idxs[1] = 2
  /\ files # NoFiles

\* The path is a drive-letter prefix, separators, or the prefix followed by
\* separators, and nothing else.
OnlyDriveOrSeparators(p) ==
  /\ p # <<>>
  /\ LET q == IF HasDrive(p) THEN Drop(p, 2) ELSE p IN
     \A n \in 1..Len(q) : IsSep(q[n])

\* C17: a record whose decoded path is only a drive-letter prefix and/or
\* separators is never written and is not counted: its flush does nothing
\* and raises no error, and the records after it are processed as usual.
C17_PathEscapeDrop ==
  /\ restoredFileCount = Len(log)
  /\ \A k \in LogIdx : ~OnlyDriveOrSeparators(log[k].headerPath)
  /\ \A i \in opened :
       (pc = "threw" /\ OnlyDriveOrSeparators(maybePaths[i])) =>
         \E j \in opened : j > i

\* The record opened at position i has been flushed: a later line has
\* opened the next record, or the input has ended and the final flush is done.
Flushed(i) == (\E j \in opened : j > i) \/ pc = "done"

\* C26: the restored-file counter is the number of writes performed, one
\* for each flushed record whose sanitized path is not empty; it goes up
\* after the write and with it, a path written twice counts twice, and
\* orphan lines, skipped records and appended lines leave it as it is.
C26_RestoredFileCounter ==
  /\ restoredFileCount = Len(log)
  /\ restoredFileCount =
       Cardinality({i \in opened : Flushed(i) /\ sanitizePath(maybePaths[i]) # <<>>})
  /\ \A k \in LogIdx : log[k].path \in DOMAIN files
  /\ Cardinality(DOMAIN files) = Cardinality({log[k].path : k \in LogIdx})

\* An orphan line, then two records written to one path: the counter is 2
\* and there is one file.
C26_Witness ==
  /\ pc = "done"
  /\ maybePaths[1] = NULL
  /\ restoredFileCount = 2
  /\ Cardinality(DOMAIN files) = 1

(***************************************************************************)
(* The artifact cleaner                                                    *)
(***************************************************************************)

\* .replace(/^\uFEFF/, ""): one byte-order mark at the start, if any.
StripLeadingBom(s) == IF s # <<>> /\ Head(s) = "BOM" THEN Tail(s) ELSE s

\* [\u200B-\u200D\u2060]: "ZW", "ZWNJ", "ZWJ" are U+200B..U+200D, "WJ" is U+2060.
IsZeroWidth(c) == c \in {"ZW", "ZWNJ", "ZWJ", "WJ"}

\* .replace(/[\u200B-\u200D\u2060]+/g, "")
RECURSIVE RemoveZeroWidth(_)
RemoveZeroWidth(s) ==
  IF s = <<>> THEN <<>>
  ELSE IF IsZeroWidth(Head(s)) THEN RemoveZeroWidth(Tail(s))
  ELSE <<Head(s)>> \o RemoveZeroWidth(Tail(s))

StraightQuote(c) ==
  IF c \in {"LDQ", "RDQ"} THEN "\""
  ELSE IF c \in {"LSQ", "RSQ"} THEN "'"
  ELSE c

\* the curly double quotes become ", the curly single quotes become '
RECURSIVE StraightenQuotes(_)
StraightenQuotes(s) ==
  IF s = <<>> THEN <<>> ELSE <<StraightQuote(Head(s))>> \o StraightenQuotes(Tail(s))

\* removeChatGPTArtifacts of folder2txt.js
removeChatGPTArtifacts(src) == StraightenQuotes(RemoveZeroWidth(StripLeadingBom(src)))

\* cleanArtifacts of stripUnwantedComments.js
cleanArtifacts(text) == StraightenQuotes(RemoveZeroWidth(StripLeadingBom(text)))

clean(which, x) ==
  IF which = "removeChatGPTArtifacts" THEN removeChatGPTArtifacts(x) ELSE cleanArtifacts(x)

CleanAlphabet == {"BOM", "ZW", "LDQ", "a"}

MaxCleanLen == 3

CleanInputs == SeqsUpTo(CleanAlphabet, MaxCleanLen)

CInit ==
  /\ cleaner \in {"removeChatGPTArtifacts", "cleanArtifacts"}
  /\ cleanIn \in CleanInputs
  /\ cleaned = <<>>

CIdle ==
  /\ cleaner = "cleanArtifacts"
  /\ cleanIn = <<>>
  /\ cleaned = <<>>

\* The cleaner applied to the text.
CleanOnce ==
  /\ cleaned = <<>>
  /\ cleaned' = <<clean(cleaner, cleanIn)>>
  /\ UNCHANGED <<cleaner, cleanIn>>
  /\ UNCHANGED <<dvars, svars, wvars, uvars>>

\* The cleaner applied to its own result.
CleanAgain ==
  /\ Len(cleaned) = 1
  /\ cleaned' = Append(cleaned, clean(cleaner, cleaned[1]))
  /\ UNCHANGED <<cleaner, cleanIn>>
  /\ UNCHANGED <<dvars, svars, wvars, uvars>>

\* C6: clean(clean(x)) equals clean(x) for every text x.
C6_CleanIdempotent == Len(cleaned) = 2 => cleaned[2] = cleaned[1]


(***************************************************************************)
(* The comment stripper                                                    *)
(***************************************************************************)

\* /^```/.test(line.trim())
IsFenceStart(line) == StartsWith(Trim(line), Fence)

\* stripCodeFence of stripUnwantedComments.js
stripCodeFence(text) ==
  LET t == Trim(text) IN
  IF ~StartsWith(t, Fence) THEN text
  ELSE LET rest == Tail(SplitLines(t)) IN
       IF Len(rest) > 0 /\ IsFenceStart(rest[Len(rest)])
         THEN JoinLines(SubSeq(rest, 1, Len(rest) - 1))
         ELSE JoinLines(rest)

\* .replace(/\r\n/g, "\n")
RECURSIVE NormalizeCrLf(_)
NormalizeCrLf(s) ==
  IF s = <<>> THEN <<>>
  ELSE IF Head(s) = "\r" /\ Len(s) >= 2 /\ s[2] = "\n" THEN <<"\n">> \o NormalizeCrLf(Drop(s, 2))
  ELSE <<Head(s)>> \o NormalizeCrLf(Tail(s))

\* text.split("\n")
RECURSIVE SplitLfFrom(_, _, _)
SplitLfFrom(s, cur, acc) ==
  IF s = <<>> THEN Append(acc, cur)
  ELSE IF Head(s) = "\n" THEN SplitLfFrom(Tail(s), <<>>, Append(acc, cur))
  ELSE SplitLfFrom(Tail(s), Append(cur, Head(s)), acc)

SplitLf(s) == SplitLfFrom(s, <<>>, <<>>)

\* /^\s*<opener>\s*File:\s*\S+/
openSeparator(line, opener) ==
  LET r == AfterFileToken(line, opener) IN
  r # NULL /\ TrimStart(r) # <<>>

\* /^\s*<opener>\s*File:\s*\S+.*<closer>\s*$/
closedSeparator(line, opener, closer) ==
  LET r == AfterFileToken(line, opener) IN
  /\ r # NULL
  /\ LET t == TrimEnd(TrimStart(r)) IN
     EndsWith(t, closer) /\ Len(t) > Len(closer)

\* recognizedSeparators.some((re) => re.test(line))
isRecognizedSeparator(line) ==
  \/ openSeparator(line, SlashSlash)
  \/ closedSeparator(line, BlockOpen, BlockClose)
  \/ openSeparator(line, DashDash)
  \/ openSeparator(line, Hash)
  \/ closedSeparator(line, HtmlOpen, HtmlClose)

\* isCommentLine of stripUnwantedComments.js
isCommentLinePlain(line) ==
  LET t == TrimStart(line) IN
  \/ StartsWith(t, SlashSlash) \/ StartsWith(t, BlockOpen) \/ StartsWith(t, DashDash)
  \/ StartsWith(t, Hash) \/ StartsWith(t, HtmlOpen)

\* isCommentLine of the script with inBlock: "*" and "*/" count too.
isCommentLineBlock(line) ==
  LET t == TrimStart(line) IN
  \/ isCommentLinePlain(line)
  \/ StartsWith(t, <<"*">>) \/ StartsWith(t, BlockClose)

\* /.*\*\/\s*$/.test(trim) || /.*-->\s*$/.test(trim)
endsWithCloser(trim) ==
  EndsWith(TrimEnd(trim), BlockClose) \/ EndsWith(TrimEnd(trim), HtmlClose)

\* oneLineBlockCmt: /^\s*(?:\/\*.*\*\/|<!--.*-->)/
RECURSIVE Contains(_, _)
Contains(s, p) ==
  IF Len(s) < Len(p) THEN FALSE
  ELSE StartsWith(s, p) \/ Contains(Tail(s), p)

oneLineBlockCmt(line) ==
  LET t == TrimStart(line) IN
  \/ StartsWith(t, BlockOpen) /\ Contains(Drop(t, Len(BlockOpen)), BlockClose)
  \/ StartsWith(t, HtmlOpen) /\ Contains(Drop(t, Len(HtmlOpen)), HtmlClose)

BlockOpenLine == BlockOpen \o Sp \o <<"c">>
BlockCloseLine == <<"c">> \o Sp \o BlockClose
HtmlOpenLine == HtmlOpen \o Sp \o <<"c">>
HtmlCloseLine == HtmlClose

\* A line of code or of a list that starts with an asterisk.
StarLine == <<"*", "p">>

StripPool ==
  { slashHeader(PathA), blockHeader(PathJson), hashHeader(PathPy),
    htmlHeader(PathHtml), dashHeader(PathSql),
    BlockOpenLine, BlockCloseLine, HtmlOpenLine, HtmlCloseLine,
    NoteLine, StarLine, BodyLine, <<>> }

MaxStripLines == 3

StripTexts == {JoinLines(d) : d \in SeqsUpTo(StripPool, MaxStripLines) \ {<<>>}}

\* stripUnwantedComments before it reads its input.
SInit ==
  /\ sVariant \in {"block", "plain"}
  /\ sText \in StripTexts
  /\ sLines = <<>>
  /\ sPos = 0
  /\ sPc = "read"
  /\ out = <<>>
  /\ blanks = 0
  /\ inBlock = FALSE
  /\ keptIdx = <<>>
  /\ sResult = <<>>

SIdle ==
  /\ sVariant = "plain"
  /\ sText = <<>>
  /\ sLines = <<>>
  /\ sPos = 0
  /\ sPc = "idle"
  /\ out = <<>>
  /\ blanks = 0
  /\ inBlock = FALSE
  /\ keptIdx = <<>>
  /\ sResult = <<>>

\* The content is cleaned, unfenced and split into lines.
StripRead ==
  /\ sPc = "read"
  /\ sLines' = SplitLf(NormalizeCrLf(stripCodeFence(cleanArtifacts(sText))))
  /\ sPc' = "loop"
  /\ UNCHANGED <<sVariant, sText, sPos, out, blanks, inBlock, keptIdx, sResult>>
  /\ UNCHANGED <<dvars, cvars, wvars, uvars>>

SLine == sLines[sPos + 1]

SReading == sPc = "loop" /\ sPos < Len(sLines)

\* Inside a block: the line is skipped, and a closer at its end ends the block.
StripInBlock ==
  /\ SReading /\ sVariant = "block" /\ inBlock
  /\ inBlock' = ~endsWithCloser(Trim(SLine))
  /\ sPos' = sPos + 1
  /\ UNCHANGED <<sVariant, sText, sLines, sPc, out, blanks, keptIdx, sResult>>
  /\ UNCHANGED <<dvars, cvars, wvars, uvars>>

\* A recognised separator is kept, trimmed (the script with inBlock).
StripSeparator ==
  /\ SReading /\ sVariant = "block" /\ ~inBlock
  /\ isRecognizedSeparator(Trim(SLine))
  /\ out' = Append(out, Trim(SLine))
  /\ keptIdx' = Append(keptIdx, sPos + 1)
  /\ blanks' = 0
  /\ sPos' = sPos + 1
  /\ UNCHANGED <<sVariant, sText, sLines, sPc, inBlock, sResult>>
  /\ UNCHANGED <<dvars, cvars, wvars, uvars>>

\* A line that starts a block comment is skipped; without a closer at its
\* end the block stays open.
StripOpener ==
  /\ SReading /\ sVariant = "block" /\ ~inBlock
  /\ LET trim == Trim(SLine) IN
     /\ ~isRecognizedSeparator(trim)
     /\ StartsWith(trim, BlockOpen) \/ StartsWith(trim, HtmlOpen)
     /\ inBlock' = ~endsWithCloser(trim)
  /\ sPos' = sPos + 1
  /\ UNCHANGED <<sVariant, sText, sLines, sPc, out, blanks, keptIdx, sResult>>
  /\ UNCHANGED <<dvars, cvars, wvars, uvars>>

\* Any other comment line is skipped.
StripComment ==
  /\ SReading
  /\ IF sVariant = "block"
       THEN LET trim == Trim(SLine) IN
            /\ ~inBlock
            /\ ~isRecognizedSeparator(trim)
            /\ ~(StartsWith(trim, BlockOpen) \/ StartsWith(trim, HtmlOpen))
            /\ oneLineBlockCmt(trim) \/ isCommentLineBlock(trim)
       ELSE isCommentLinePlain(SLine) /\ ~isRecognizedSeparator(SLine)
  /\ sPos' = sPos + 1
  /\ UNCHANGED <<sVariant, sText, sLines, sPc, out, blanks, inBlock, keptIdx, sResult>>
  /\ UNCHANGED <<dvars, cvars, wvars, uvars>>

\* The line gets as far as the blank-line collapse.
SPlainLine ==
  IF sVariant = "block"
    THEN LET trim == Trim(SLine) IN
         /\ ~inBlock
         /\ ~isRecognizedSeparator(trim)
         /\ ~(StartsWith(trim, BlockOpen) \/ StartsWith(trim, HtmlOpen))
         /\ ~(oneLineBlockCmt(trim) \/ isCommentLineBlock(trim))
    ELSE ~(isCommentLinePlain(SLine) /\ ~isRecognizedSeparator(SLine))

\* A blank line: the first of a run is kept, the others are skipped.
StripBlank ==
  /\ SReading /\ SPlainLine
  /\ Trim(SLine) = <<>>
  /\ blanks' = blanks + 1
  /\ IF blanks + 1 > 1
       THEN UNCHANGED <<out, keptIdx>>
       ELSE /\ out' = Append(out, <<>>)
            /\ keptIdx' = Append(keptIdx, sPos + 1)
  /\ sPos' = sPos + 1
  /\ UNCHANGED <<sVariant, sText, sLines, sPc, inBlock, sResult>>
  /\ UNCHANGED <<dvars, cvars, wvars, uvars>>

\* Any other line is kept, trimmed.
StripKeep ==
  /\ SReading /\ SPlainLine
  /\ Trim(SLine) # <<>>
  /\ blanks' = 0
  /\ out' = Append(out, Trim(SLine))
  /\ keptIdx' = Append(keptIdx, sPos + 1)
  /\ sPos' = sPos + 1
  /\ UNCHANGED <<sVariant, sText, sLines, sPc, inBlock, sResult>>
  /\ UNCHANGED <<dvars, cvars, wvars, uvars>>

\* out.join("\n") + "\n" is written to the output file.
StripWrite ==
  /\ sPc = "loop" /\ sPos = Len(sLines)
  /\ sResult' = JoinLines(out) \o <<"\n">>
  /\ sPc' = "done"
  /\ UNCHANGED <<sVariant, sText, sLines, sPos, out, blanks, inBlock, keptIdx>>
  /\ UNCHANGED <<dvars, cvars, wvars, uvars>>

\* C9: every line that is a recognized header appears in the stripper's
\* output, whatever the stripper's state when the line is read, also inside
\* a suppressed block comment.
C9_HeaderRetention ==
  \A i \in 1..sPos :
    isRecognizedSeparator(Trim(sLines[i])) =>
      /\ i \in Range(keptIdx)
      /\ \E k \in 1..Len(out) : out[k] = Trim(sLines[i])

(***************************************************************************)
(* Claims about the comment stripper, continued                            *)
(***************************************************************************)

\* The block the first n lines leave open: "none", "block" for an opener
\* slash-star and "html" for an opener <!--.  An opener that is no
\* recognized separator and has no closer of its kind after it on its line
\* opens a block; the first line that contains the closer of that kind, at
\* any place, closes it.
RECURSIVE BlockAfter(_)
BlockAfter(n) ==
  IF n = 0 THEN "none"
  ELSE LET before == BlockAfter(n - 1)
           t == Trim(sLines[n])
       IN IF before = "block" THEN (IF Contains(t, BlockClose) THEN "none" ELSE "block")
          ELSE IF before = "html" THEN (IF Contains(t, HtmlClose) THEN "none" ELSE "html")
          ELSE IF isRecognizedSeparator(t) THEN "none"
          ELSE IF StartsWith(t, BlockOpen) /\ ~Contains(Drop(t, Len(BlockOpen)), BlockClose)
            THEN "block"
          ELSE IF StartsWith(t, HtmlOpen) /\ ~Contains(Drop(t, Len(HtmlOpen)), HtmlClose)
            THEN "html"
          ELSE "none"

\* C18: in the stripper of part_001, after an unrecognized opener without a
\* closer on its line every line is dropped up to and including the first
\* line that contains the closer of the same kind; a line with the closer of
\* the other kind only does not end the block, and the line after the closing
\* line is processed as outside a block.
C18_BlockSuppression ==
  sVariant = "block" =>
    /\ inBlock <=> BlockAfter(sPos) # "none"
    /\ \A n \in 1..sPos :
         (BlockAfter(n - 1) # "none" /\ ~isRecognizedSeparator(Trim(sLines[n])))
           => n \notin Range(keptIdx)

IsBlankAt(n) == Trim(sLines[n]) = <<>>

\* The lines a..b are a maximal run of blank lines.
BlankRun(a, b) ==
  /\ a <= b
  /\ \A n \in a..b : IsBlankAt(n)
  /\ a = 1 \/ ~IsBlankAt(a - 1)
  /\ b = Len(sLines) \/ ~IsBlankAt(b + 1)

\* C19: each maximal run of blank input lines outside a suppressed block
\* gives exactly one blank line of output; a non-blank line ends the run
\* whether it is kept or dropped.
C19_BlankCollapse ==
  sPc = "done" =>
    \A a, b \in 1..Len(sLines) :
      ( /\ BlankRun(a, b)
        /\ sVariant = "block" => \A n \in 0..b : BlockAfter(n) = "none" )
      => Cardinality(Range(keptIdx) \cap (a..b)) = 1

\* The trimmed line starts with one of the five comment markers.
StartsWithMarker(t) ==
  \E marker \in {SlashSlash, Hash, DashDash, BlockOpen, HtmlOpen} : StartsWith(t, marker)

\* C25: every non-blank line the stripper reads outside a suppressed block
\* whose trimmed form starts with none of the markers //, #, --, slash-star
\* and <!-- is in the output, trimmed; the output lines are trimmed input
\* lines, in the order of the input.
C25_ContentPreservation ==
  /\ \A i \in 1..sPos :
       ( /\ Trim(sLines[i]) # <<>>
         /\ sVariant = "block" => BlockAfter(i - 1) = "none"
         /\ ~StartsWithMarker(Trim(sLines[i])) )
       => i \in Range(keptIdx)
  /\ Len(out) = Len(keptIdx)
  /\ \A k \in 1..Len(keptIdx) :
       /\ out[k] = Trim(sLines[keptIdx[k]])
       /\ k > 1 => keptIdx[k - 1] < keptIdx[k]

(***************************************************************************)
(* The serializer: processFolder of folder2txt.js                          *)
(***************************************************************************)

MAX_FILES == 1000

\* What countFiles returns once the count has passed MAX_FILES.
Infinity == -1

\* count >= MAX_FILES: a ceiling that refuses MAX_FILES itself.
exceedsLimitInclusive(count) == count = Infinity \/ count >= MAX_FILES

\* count > MAX_FILES, for a count and for Infinity.
exceedsLimit(count) == count = Infinity \/ count > MAX_FILES

\* count += countFiles(fp)
addCount(count, n) == IF count = Infinity \/ n = Infinity THEN Infinity ELSE count + n

\* pattern.split("*")
RECURSIVE SplitStarFrom(_, _, _)
SplitStarFrom(s, cur, acc) ==
  IF s = <<>> THEN Append(acc, cur)
  ELSE IF Head(s) = "*" THEN SplitStarFrom(Tail(s), <<>>, Append(acc, cur))
  ELSE SplitStarFrom(Tail(s), Append(cur, Head(s)), acc)

\* str against ".*" piece ".*" piece ... piece "$"
RECURSIVE MatchAfterStar(_, _)
MatchAfterStar(str, pieces) ==
  IF Len(pieces) = 1 THEN EndsWith(str, pieces[1])
  ELSE \E k \in 0..Len(str) :
         /\ StartsWith(Drop(str, k), pieces[1])
         /\ MatchAfterStar(Drop(str, k + Len(pieces[1])), Tail(pieces))

\* new RegExp("^" + pattern.split("*").map(escape).join(".*") + "$").test(str)
matchWildcard(str, pattern) ==
  LET pieces == SplitStarFrom(pattern, <<>>, <<>>) IN
  IF Len(pieces) = 1 THEN str = pieces[1]
  ELSE /\ StartsWith(str, pieces[1])
       /\ MatchAfterStar(Drop(str, Len(pieces[1])), Tail(pieces))

\* A rule set with one folder pattern and one file pattern.
NamedIgnores ==
  [folders |-> << <<"n", "m">> >>,
   files |-> << <<"*", ".", "l">> >>]

\* A rule set with no pattern.
NoIgnores == [folders |-> <<>>, files |-> <<>>]

IgnoreConfigs == {NamedIgnores, NoIgnores}

\* shouldIgnore with the two pattern lists exchanged.
shouldIgnoreSwapped(name, isFolder) ==
  LET pats == IF isFolder THEN ignoreConfig.files ELSE ignoreConfig.folders IN
  \E k \in 1..Len(pats) : name = pats[k] \/ matchWildcard(name, pats[k])

\* shouldIgnore(filePath, isFolder), on the base name of filePath.
shouldIgnore(name, isFolder) ==
  LET pats == IF isFolder THEN ignoreConfig.folders ELSE ignoreConfig.files IN
  \E k \in 1..Len(pats) : name = pats[k] \/ matchWildcard(name, pats[k])

\* A folder is written as a sequence of items: a file, a folder with its own
\* items, or a run of copies files named name1 .. name<copies> of the same
\* content. Its listing has one entry per file and folder.
File(name, content) ==
  [name |-> name, isDir |-> FALSE, kids |-> <<>>, content |-> content, copies |-> 1]

Dir(name, kids) ==
  [name |-> name, isDir |-> TRUE, kids |-> kids, content |-> <<>>, copies |-> 1]

Files(name, content, copies) ==
  [name |-> name, isDir |-> FALSE, kids |-> <<>>, content |-> content, copies |-> copies]

DigitChars == <<"0", "1", "2", "3", "4", "5", "6", "7", "8", "9">>

\* The decimal numeral of n.
RECURSIVE Decimal(_)
Decimal(n) ==
  IF n < 10 THEN <<DigitChars[n + 1]>>
  ELSE Append(Decimal(n \div 10), DigitChars[(n % 10) + 1])

\* The number of entries of fs.readdirSync on a folder of these items.
RECURSIVE EntryCount(_)
EntryCount(items) ==
  IF items = <<>> THEN 0 ELSE Head(items).copies + EntryCount(Tail(items))

\* Entry number i of that listing.
RECURSIVE EntryAt(_, _)
EntryAt(items, i) ==
  LET it == Head(items) IN
  IF i > it.copies THEN EntryAt(Tail(items), i - it.copies)
  ELSE IF it.copies = 1 THEN it
  ELSE File(it.name \o Decimal(i), it.content)

\* The items of the folder reached from folderPath by the entry numbers
\* in where.
RECURSIVE Listing(_)
Listing(where) ==
  IF where = <<>> THEN tree
  ELSE EntryAt(Listing(SubSeq(where, 1, Len(where) - 1)), where[Len(where)]).kids

\* The name of folderPath below the working directory.
FolderName == <<"p">>

\* path.relative(CWD, <the directory at where>)
RECURSIVE RelDir(_)
RelDir(where) ==
  IF where = <<>> THEN FolderName
  ELSE RelDir(SubSeq(where, 1, Len(where) - 1)) \o <<"/">>
         \o EntryAt(Listing(SubSeq(where, 1, Len(where) - 1)), where[Len(where)]).name

\* path.relative(CWD, absPath) of an entry of that directory
RelPath(where, name) == RelDir(where) \o <<"/">> \o name

ExtSlashes ==
  { <<".", "j", "s">>, <<".", "t", "s">>, <<".", "j", "s", "x">>, <<".", "t", "s", "x">>,
    <<".", "j", "a", "v", "a">>, <<".", "c">>, <<".", "c", "p", "p">>, <<".", "h">> }

ExtBlocks ==
  { <<".", "c", "s", "s">>, <<".", "s", "c", "s", "s">>, <<".", "s", "a", "s", "s">>,
    <<".", "l", "e", "s", "s">> }

ExtHash ==
  { <<".", "p", "y">>, <<".", "s", "h">>, <<".", "r", "b">>, <<".", "p", "s", "1">> }

ExtHtml ==
  { <<".", "h", "t", "m", "l">>, <<".", "h", "t", "m">>, <<".", "v", "u", "e">>,
    <<".", "s", "v", "e", "l", "t", "e">> }

ExtSql == { <<".", "s", "q", "l">> }

ExtLua == { <<".", "l", "u", "a">> }

\* getCommentHeader(rel): the header line and its line break.
getCommentHeader(rel) ==
  LET ext == toLowerCase(extname(rel))
      line == IF ext \in ExtSlashes THEN slashHeader(rel)
              ELSE IF ext \in ExtBlocks THEN blockHeader(rel)
              ELSE IF ext \in ExtHash THEN hashHeader(rel)
              ELSE IF ext \in ExtHtml THEN htmlHeader(rel)
              ELSE IF ext \in ExtSql THEN dashHeader(rel)
              ELSE IF ext \in ExtLua THEN dashHeader(rel)
              ELSE slashHeader(rel)
  IN line \o <<"\n">>

\* content.split(/\r?\n/).find((l) => l.trim() !== "") || ""
firstNonBlankLine(content) ==
  LET ls == SplitLines(content)
      idx == {i \in 1..Len(ls) : Trim(ls[i]) # <<>>}
  IN IF idx = {} THEN <<>> ELSE ls[CHOOSE i \in idx : \A j \in idx : i <= j]

\* /^(?:\/\/|\/\*|#|<!--|--)\s*File:/i
hasHeaderPrefix(cleanedLine) ==
  \E opener \in {SlashSlash, BlockOpen, Hash, HtmlOpen, DashDash} :
    /\ StartsWith(cleanedLine, opener)
    /\ StartsWith(toLowerCase(TrimStart(Drop(cleanedLine, Len(opener)))), toLowerCase(FileTok))

alreadyHasHeader(content) ==
  hasHeaderPrefix(TrimStart(removeChatGPTArtifacts(firstNonBlankLine(content))))

alreadyHasJsHeader(content) ==
  StartsWith(TrimStart(removeChatGPTArtifacts(firstNonBlankLine(content))),
             SlashSlash \o Sp \o FileTok)

\* What stripCodeFences gives when lines[lines.length - 1] is undefined.
TypeError == << "<TypeError>" >>

\* stripCodeFences of folder2txt.js
stripCodeFences(src) ==
  LET trimmed == Trim(src) IN
  IF ~StartsWith(trimmed, Fence) THEN src
  ELSE LET rest == Tail(SplitLines(trimmed)) IN
       IF Len(rest) = 0 THEN TypeError
       ELSE IF StartsWith(rest[Len(rest)], Fence)
         THEN JoinLines(SubSeq(rest, 1, Len(rest) - 1))
         ELSE JoinLines(rest)

DotJs == <<".", "j", "s">>

\* getCommentHeader of part_000: a block header for three extensions, a
\* slash header for every other one.
getCommentHeaderOld(relativePath) ==
  LET ext == toLowerCase(extname(relativePath))
      blockCommentExts == { <<".", "c", "s", "s">>, <<".", "s", "c", "s", "s">>,
                            <<".", "s", "a", "s", "s">> }
      line == IF ext = DotJson THEN slashHeader(relativePath)
              ELSE IF ext \in blockCommentExts THEN blockHeader(relativePath)
              ELSE slashHeader(relativePath)
  IN line \o <<"\n">>

\* alreadyHasHeader of part_000, on the first line of the content.
alreadyHasHeaderOld(content) ==
  LET firstLine == SplitLines(content)[1]
      trimmed == TrimStart(firstLine)
  IN /\ firstLine # <<>>
     /\ \/ StartsWith(trimmed, SlashSlash \o Sp \o FileTok)
        \/ StartsWith(trimmed, BlockOpen \o Sp \o FileTok)

\* A stream that puts each chunk before what it already holds.
outWriteFront(stream, chunk) == chunk \o stream

\* out.write(chunk): the chunk goes to the end of the stream.
outWrite(stream, chunk) == stream \o chunk

\* processFile of part_000: what it writes to the stream.
processFile(where, entry) ==
  LET has == alreadyHasHeaderOld(entry.content) IN
  [threw |-> FALSE,
   text |-> outWrite(IF has THEN <<>> ELSE getCommentHeaderOld(RelPath(where, entry.name)),
                     entry.content \o <<"\n">>),
   header |-> ~has]

\* writeFile(absPath): what it writes to the stream, or TypeError.
writeFile(where, entry) ==
  LET rel == RelPath(where, entry.name)
      unfenced == stripCodeFences(removeChatGPTArtifacts(entry.content))
      ext == toLowerCase(extname(entry.name))
      has == IF ext = DotJs THEN alreadyHasJsHeader(unfenced) ELSE alreadyHasHeader(unfenced)
  IN IF unfenced = TypeError THEN [threw |-> TRUE, text |-> <<>>, header |-> FALSE]
     ELSE [threw |-> FALSE,
           text |-> outWrite(outWrite(IF has THEN <<>> ELSE getCommentHeader(rel),
                                      NormalizeCrLf(unfenced)),
                             <<"\n", "\n">>),
           header |-> ~has]

NameIgnoredFile == <<"i", ".", "l">>

NameIgnoredDir == <<"n", "m">>

NameDir == <<"d">>

PathJs == <<"e", ".", "j", "s">>

\* n empty files f1 .. fn
ManyFiles(n) == <<Files(<<"f">>, <<>>, n)>>

\* How far from MAX_FILES the large trees go, on both sides.
Slack == 1

\* Large trees, flat: an ignored file, an ignored folder, a folder of one
\* file and n files, MAX_FILES - Slack to MAX_FILES + Slack to count.
FlatTrees ==
  { << File(NameIgnoredFile, BodyLine), Dir(NameIgnoredDir, ManyFiles(2)),
       Dir(NameDir, ManyFiles(1)) >> \o ManyFiles(n) :
      n \in (MAX_FILES - 1 - Slack)..(MAX_FILES - 1 + Slack) }

\* Large trees, nested: a folder of n files, MAX_FILES - Slack to
\* MAX_FILES + Slack, then one file.
NestedTrees ==
  { << Dir(NameDir, ManyFiles(n)), File(PathA, <<>>) >> :
      n \in (MAX_FILES - Slack)..(MAX_FILES + Slack) }

HeadedJs == slashHeader(PathJs) \o <<"\n">> \o BodyLine

\* A .js file that starts with its header in the block syntax.
BlockHeadedJs == blockHeader(PathJs) \o <<"\n">> \o BodyLine

\* A file that starts with its header in the hash syntax.
HashHeaded == hashHeader(PathA) \o <<"\n">> \o BodyLine

\* A file that holds a single fence line and nothing else.
PathFenced == <<"g", ".", "t">>

EntryPool ==
  { File(PathA, BodyLine), File(PathJson, <<"{", "}">>), File(PathPy, BodyLine),
    File(PathFenced, Fence),
    File(PathJs, HeadedJs), File(PathJs, BlockHeadedJs), File(PathA, HashHeaded),
    File(NameIgnoredFile, BodyLine),
    File(NameIgnoredDir, BodyLine),
    Dir(NameIgnoredFile, <<File(PathA, BodyLine)>>),
    Dir(NameDir, <<File(PathA, BodyLine)>>),
    Dir(NameIgnoredDir, <<File(PathA, BodyLine)>>) }

MaxTreeEntries == 2

\* Small trees: the names of a folder are distinct.
SmallTrees ==
  { t \in SeqsUpTo(EntryPool, MaxTreeEntries) :
      \A i, j \in 1..Len(t) : t[i].name = t[j].name => i = j }

NewFrame(where) == [dir |-> where, i |-> 0, count |-> 0]

WInit(variants, trees) ==
  /\ wVariant \in variants
  /\ ignoreConfig \in IgnoreConfigs
  /\ tree \in trees
  /\ wPc = "count"
  /\ stack = <<NewFrame(<<>>)>>
  /\ total = 0
  /\ outDirMade = FALSE
  /\ outOpen = FALSE
  /\ outText = <<>>
  /\ emitted = <<>>

WIdle ==
  /\ wVariant = "folder2txt"
  /\ ignoreConfig = NoIgnores
  /\ tree = <<>>
  /\ wPc = "idle"
  /\ stack = <<>>
  /\ total = 0
  /\ outDirMade = FALSE
  /\ outOpen = FALSE
  /\ outText = <<>>
  /\ emitted = <<>>

Top == stack[Len(stack)]

\* The entry the loop of the innermost call is at.
HasEntry == stack # <<>> /\ Top.i < EntryCount(Listing(Top.dir))

Entry == EntryAt(Listing(Top.dir), Top.i + 1)

Counting == wPc = "count" /\ HasEntry /\ ~exceedsLimit(Top.count)

\* The ignore test of countFiles on a file: folder2txt.js asks for the file
\* patterns, part_000 for the folder patterns.
countIgnoresFile(name) == shouldIgnore(name, wVariant = "part_000")

Advance(by) == [stack EXCEPT ![Len(stack)] = [@ EXCEPT !.i = @ + 1, !.count = @ + by]]

\* countFiles: a file that is not ignored.
CountFile ==
  /\ Counting
  /\ ~Entry.isDir /\ ~countIgnoresFile(Entry.name)
  /\ stack' = Advance(1)
  /\ UNCHANGED <<wVariant, ignoreConfig, tree, wPc, total, outDirMade, outOpen, outText, emitted>>
  /\ UNCHANGED <<dvars, cvars, svars, uvars>>

\* countFiles: an ignored file or an ignored folder.
CountSkip ==
  /\ Counting
  /\ IF Entry.isDir THEN shouldIgnore(Entry.name, TRUE) ELSE countIgnoresFile(Entry.name)
  /\ stack' = Advance(0)
  /\ UNCHANGED <<wVariant, ignoreConfig, tree, wPc, total, outDirMade, outOpen, outText, emitted>>
  /\ UNCHANGED <<dvars, cvars, svars, uvars>>

\* countFiles: the recursive call on a folder that is not ignored.
CountEnter ==
  /\ Counting
  /\ Entry.isDir /\ ~shouldIgnore(Entry.name, TRUE)
  /\ stack' = Append(stack, NewFrame(Append(Top.dir, Top.i + 1)))
  /\ UNCHANGED <<wVariant, ignoreConfig, tree, wPc, total, outDirMade, outOpen, outText, emitted>>
  /\ UNCHANGED <<dvars, cvars, svars, uvars>>

\* countFiles returns: Infinity once the count has passed MAX_FILES,
\* the count at the end of the listing.
CountReturn ==
  /\ wPc = "count" /\ stack # <<>>
  /\ exceedsLimit(Top.count) \/ ~HasEntry
  /\ LET v == IF exceedsLimit(Top.count) THEN Infinity ELSE Top.count
         n == Len(stack)
     IN IF n = 1
        THEN /\ total' = v
             /\ wPc' = "counted"
             /\ stack' = <<>>
        ELSE /\ stack' = [SubSeq(stack, 1, n - 1) EXCEPT
                            ![n - 1] = [@ EXCEPT !.i = @ + 1,
                                                 !.count = addCount(@, v)]]
             /\ UNCHANGED <<total, wPc>>
  /\ UNCHANGED <<wVariant, ignoreConfig, tree, outDirMade, outOpen, outText, emitted>>
  /\ UNCHANGED <<dvars, cvars, svars, uvars>>

\* processFolder: total > MAX_FILES, the message and the return.
ProcessAbort ==
  /\ wPc = "counted"
  /\ exceedsLimit(total)
  /\ wPc' = "aborted"
  /\ UNCHANGED <<wVariant, ignoreConfig, tree, stack, total, outDirMade, outOpen, outText, emitted>>
  /\ UNCHANGED <<dvars, cvars, svars, uvars>>

\* processFolder: mkdirSync, createWriteStream and the call of walk.
ProcessOpen ==
  /\ wPc = "counted"
  /\ ~exceedsLimit(total)
  /\ outDirMade' = TRUE
  /\ outOpen' = TRUE
  /\ stack' = <<NewFrame(<<>>)>>
  /\ wPc' = "walk"
  /\ UNCHANGED <<wVariant, ignoreConfig, tree, total, outText, emitted>>
  /\ UNCHANGED <<dvars, cvars, svars, uvars>>

Walking == wPc = "walk" /\ HasEntry

\* walk: writeFile on a file that is not ignored.
WalkFile ==
  /\ Walking
  /\ ~Entry.isDir /\ ~shouldIgnore(Entry.name, FALSE)
  /\ LET w == IF wVariant = "part_000" THEN processFile(Top.dir, Entry)
              ELSE writeFile(Top.dir, Entry)
     IN
       IF w.threw
       THEN /\ wPc' = "threw"
            /\ UNCHANGED <<stack, outText, emitted>>
       ELSE /\ outText' = outWrite(outText, w.text)
            /\ emitted' = Append(emitted, [at |-> Append(Top.dir, Top.i + 1),
                                           header |-> w.header])
            /\ stack' = Advance(0)
            /\ UNCHANGED wPc
  /\ UNCHANGED <<wVariant, ignoreConfig, tree, total, outDirMade, outOpen>>
  /\ UNCHANGED <<dvars, cvars, svars, uvars>>

\* walk: an ignored file or an ignored folder.
WalkSkip ==
  /\ Walking
  /\ shouldIgnore(Entry.name, Entry.isDir)
  /\ stack' = Advance(0)
  /\ UNCHANGED <<wVariant, ignoreConfig, tree, wPc, total, outDirMade, outOpen, outText, emitted>>
  /\ UNCHANGED <<dvars, cvars, svars, uvars>>

\* walk: the recursive call on a folder that is not ignored.
WalkEnter ==
  /\ Walking
  /\ Entry.isDir /\ ~shouldIgnore(Entry.name, TRUE)
  /\ stack' = Append(stack, NewFrame(Append(Top.dir, Top.i + 1)))
  /\ UNCHANGED <<wVariant, ignoreConfig, tree, wPc, total, outDirMade, outOpen, outText, emitted>>
  /\ UNCHANGED <<dvars, cvars, svars, uvars>>

\* walk: the end of the listing of a folder below folderPath.
WalkLeave ==
  /\ wPc = "walk" /\ Len(stack) > 1 /\ ~HasEntry
  /\ stack' = [SubSeq(stack, 1, Len(stack) - 1) EXCEPT
                 ![Len(stack) - 1] = [@ EXCEPT !.i = @ + 1]]
  /\ UNCHANGED <<wVariant, ignoreConfig, tree, wPc, total, outDirMade, outOpen, outText, emitted>>
  /\ UNCHANGED <<dvars, cvars, svars, uvars>>

\* walk returns to processFolder: out.end().
WalkEnd ==
  /\ wPc = "walk" /\ Len(stack) = 1 /\ ~HasEntry
  /\ stack' = <<>>
  /\ wPc' = "ended"
  /\ UNCHANGED <<wVariant, ignoreConfig, tree, total, outDirMade, outOpen, outText, emitted>>
  /\ UNCHANGED <<dvars, cvars, svars, uvars>>

(***************************************************************************)
(* Claims about the serializer                                             *)
(***************************************************************************)

\* The number of files that no pattern ignores, outside ignored folders.
RECURSIVE NonIgnoredFiles(_)
NonIgnoredFiles(items) ==
  LET idx == 1..EntryCount(items)
      fs == {k \in idx : LET e == EntryAt(items, k) IN
                           ~e.isDir /\ ~shouldIgnore(e.name, FALSE)}
      ds == {k \in idx : LET e == EntryAt(items, k) IN
                           e.isDir /\ ~shouldIgnore(e.name, TRUE)}
      below[S \in SUBSET ds] ==
        IF S = {} THEN 0
        ELSE LET k == CHOOSE x \in S : TRUE IN
             NonIgnoredFiles(EntryAt(items, k).kids) + below[S \ {k}]
  IN Cardinality(fs) + below[ds]

\* C8: when the tree holds more than 1000 non-ignored files processFolder
\* aborts with no output directory, no stream and nothing written; when it
\* holds at most 1000, exactly 1000 included, it goes on to open the output
\* and walk the tree.
C8_CeilingEnforcement ==
  [][wPc = "counted" =>
       LET n == NonIgnoredFiles(tree) IN
       IF n > MAX_FILES
       THEN wPc' = "aborted" /\ ~outDirMade' /\ ~outOpen' /\ outText' = <<>>
       ELSE wPc' = "walk" /\ outDirMade' /\ outOpen']_vars

C8_Witness ==
  /\ wPc = "aborted"
  /\ NonIgnoredFiles(tree) = MAX_FILES + 1
  /\ ~outOpen

(***************************************************************************)
(* The serializer followed by the deserializer                             *)
(***************************************************************************)

\* processOutputFile on the file the serializer has ended: the read and
\* the split into lines.
ReadOutput ==
  /\ wPc = "ended" /\ pc = "idle"
  /\ variant' \in {"A", "B"}
  /\ lines' = SplitLines(outText)
  /\ pc' = "loop"
  /\ UNCHANGED <<pos, currentFileHeaderPath, currentFileLines, files, dirs,
                 restoredFileCount, bufIdx, opened, maybePaths, log>>
  /\ UNCHANGED <<cvars, svars, wvars, uvars>>

\* The folders of the tree, folderPath included, as entry numbers from
\* folderPath.
RECURSIVE FoldersBelow(_)
FoldersBelow(where) ==
  LET items == Listing(where) IN
  {where} \cup UNION { FoldersBelow(Append(where, k)) :
                         k \in {j \in 1..EntryCount(items) : EntryAt(items, j).isDir} }

\* The files of the tree: relative path and content.
SourceFiles ==
  UNION { LET items == Listing(where) IN
          { [rel |-> RelPath(where, EntryAt(items, k).name),
             content |-> EntryAt(items, k).content] :
              k \in {j \in 1..EntryCount(items) : ~EntryAt(items, j).isDir} } :
          where \in FoldersBelow(<<>>) }

NoIgnoredEntries ==
  \A where \in FoldersBelow(<<>>) :
    LET items == Listing(where) IN
    \A k \in 1..EntryCount(items) :
      ~shouldIgnore(EntryAt(items, k).name, EntryAt(items, k).isDir)

\* The content without a header line in front.
WithoutHeaderLine(content) ==
  LET ls == SplitLines(content) IN
  IF hasHeaderPrefix(TrimStart(ls[1])) THEN JoinLines(Tail(ls)) ELSE content

\* C1: for a tree with no ignored entries, after the serializer and then the
\* deserializer on its output there is one restored file per source file,
\* a non-JSON file with exactly the source content, a .json file with the
\* source content without a header line.
C1_RoundTrip ==
  (wPc = "ended" /\ pc = "done" /\ NoIgnoredEntries) =>
    /\ Cardinality(DOMAIN files) = Cardinality(SourceFiles)
    /\ \A f \in SourceFiles :
         \E path \in DOMAIN files :
           files[path] = IF isJson(f.rel) THEN WithoutHeaderLine(f.content)
                         ELSE f.content

(***************************************************************************)
(* Claims about the walk of the serializer                                 *)
(***************************************************************************)

\* The entry at a place of the tree, a place being the entry numbers from
\* folderPath down to the entry.
EntryOf(at) == EntryAt(Listing(SubSeq(at, 1, Len(at) - 1)), at[Len(at)])

\* The name equals a pattern of the list or matches it as a wildcard.
MatchesAny(name, pats) ==
  \E k \in 1..Len(pats) : name = pats[k] \/ matchWildcard(name, pats[k])

\* A file the rules leave in: its base name matches no file pattern and no
\* folder above it, below folderPath, matches a folder pattern.
KeptByRules(at) ==
  /\ ~EntryOf(at).isDir
  /\ ~MatchesAny(EntryOf(at).name, ignoreConfig.files)
  /\ \A n \in 1..(Len(at) - 1) :
       ~MatchesAny(EntryOf(SubSeq(at, 1, n)).name, ignoreConfig.folders)

\* The places of the files of the tree.
FilePlaces ==
  UNION { LET items == Listing(where) IN
          { Append(where, k) :
              k \in {j \in 1..EntryCount(items) : ~EntryAt(items, j).isDir} } :
          where \in FoldersBelow(<<>>) }

EmittedPlaces == {emitted[k].at : k \in 1..Len(emitted)}

\* C11: every record the walk of a serializer emits belongs to a file whose
\* base name matches no file pattern and that has no folder above it whose
\* base name matches a folder pattern; folder patterns bear on folders only
\* and file patterns on files only, so at the end of the walk every other
\* file has been emitted.
C11_IgnorePruning ==
  /\ \A at \in EmittedPlaces : KeptByRules(at)
  /\ wPc = "ended" => EmittedPlaces = {at \in FilePlaces : KeptByRules(at)}

\* The walk has ended on a tree that holds a file a file pattern matches and
\* it has emitted a file whose name matches a folder pattern.
C11_Witness ==
  /\ wPc = "ended"
  /\ \E k \in 1..EntryCount(tree) :
       ~EntryAt(tree, k).isDir /\ MatchesAny(EntryAt(tree, k).name, ignoreConfig.files)
  /\ \E at \in EmittedPlaces : MatchesAny(EntryOf(at).name, ignoreConfig.folders)

\* The path of a header line in one of the five syntaxes, NULL for any
\* other line: the opener, File:, the path and, in the block and HTML
\* syntaxes, the closer at the end of the line.
SupportedHeaderPath(line) ==
  LET open(opener) == AfterFileToken(TrimEnd(line), opener)
      closed(opener, closer) ==
        IF open(opener) # NULL /\ EndsWith(open(opener), closer)
        THEN Trim(SubSeq(open(opener), 1, Len(open(opener)) - Len(closer)))
        ELSE NULL
  IN IF closed(BlockOpen, BlockClose) # NULL THEN closed(BlockOpen, BlockClose)
     ELSE IF closed(HtmlOpen, HtmlClose) # NULL THEN closed(HtmlOpen, HtmlClose)
     ELSE IF open(SlashSlash) # NULL THEN Trim(open(SlashSlash))
     ELSE IF open(Hash) # NULL THEN Trim(open(Hash))
     ELSE IF open(DashDash) # NULL THEN Trim(open(DashDash))
     ELSE NULL

\* The first non-blank line of the content is a header in a supported syntax.
StartsWithSupportedHeader(content) ==
  LET ls == SplitLines(content) IN
  \E i \in 1..Len(ls) :
    /\ \A j \in 1..(i - 1) : Trim(ls[j]) = <<>>
    /\ Trim(ls[i]) # <<>>
    /\ SupportedHeaderPath(ls[i]) \notin {NULL, <<>>}

\* C12: folder2txt.js prepends a header line to a file exactly when the first
\* non-blank line of the file is not already a header in one of the five
\* supported syntaxes, whatever the extension of the file.
C12_HeaderEmission ==
  wVariant = "folder2txt" =>
    \A k \in 1..Len(emitted) :
      emitted[k].header <=> ~StartsWithSupportedHeader(EntryOf(emitted[k].at).content)

\* Place a comes before place b in a depth-first walk in listing order.
WalkedBefore(a, b) ==
  \E n \in 1..Len(a) :
    /\ n <= Len(b)
    /\ a[n] < b[n]
    /\ \A m \in 1..(n - 1) : a[m] = b[m]

\* The place lies below the folder at place d.
Below(at, d) == Len(at) > Len(d) /\ SubSeq(at, 1, Len(d)) = d

\* The three parts of the record of the k-th emitted file: the header line
\* when one was added, the content as the serializer passes it on, and the
\* separator.
RecordParts(k) ==
  LET at == emitted[k].at
      e == EntryOf(at)
      rel == RelPath(SubSeq(at, 1, Len(at) - 1), e.name)
  IN IF wVariant = "part_000"
       THEN << IF emitted[k].header THEN getCommentHeaderOld(rel) ELSE <<>>,
               e.content,
               <<"\n">> >>
       ELSE << IF emitted[k].header THEN getCommentHeader(rel) ELSE <<>>,
               NormalizeCrLf(stripCodeFences(removeChatGPTArtifacts(e.content))),
               <<"\n", "\n">> >>

RECURSIVE RecordsUpTo(_)
RecordsUpTo(k) ==
  IF k = 0 THEN <<>>
  ELSE RecordsUpTo(k - 1) \o RecordParts(k)[1] \o RecordParts(k)[2] \o RecordParts(k)[3]

EmittedRel(k) ==
  LET at == emitted[k].at IN RelPath(SubSeq(at, 1, Len(at) - 1), EntryOf(at).name)

EmittedHeaderLine(k) ==
  LET h == getCommentHeader(EmittedRel(k)) IN SubSeq(h, 1, Len(h) - 1)

\* C23: the header line getCommentHeader produces for a file is recognized
\* by parseFileHeader and decodes to the relative path of the file, so that
\* on restore the line opens a record of its own and the file is not merged
\* into the content of the file before it.
C23_EmitterRecognizerAgreement ==
  \A k \in 1..Len(emitted) :
    emitted[k].header =>
      \A i \in 1..pos :
        lines[i] = EmittedHeaderLine(k) =>
          /\ maybePaths[i] = EmittedRel(k)
          /\ pc # "threw" => i \in opened

(***************************************************************************)
(* The unfencing functions                                                 *)
(***************************************************************************)

unfence(which, text) ==
  IF which = "stripCodeFences" THEN stripCodeFences(text) ELSE stripCodeFence(text)

FenceLang == Fence \o <<"j">>

\* The lines the texts are made of: a fence, a fence with a language, a
\* line of code, an empty line.
FenceLinePool == {Fence, FenceLang, BodyLine, <<>>}

MaxFenceLines == 3

FenceTexts == {JoinLines(ls) : ls \in SeqsUpTo(FenceLinePool, MaxFenceLines) \ {<<>>}}

UInit ==
  /\ unfencer \in {"stripCodeFences", "stripCodeFence"}
  /\ fenceIn \in FenceTexts
  /\ fenceOut = <<>>

UIdle ==
  /\ unfencer = "stripCodeFence"
  /\ fenceIn = <<>>
  /\ fenceOut = <<>>

\* The function applied to the text: its result, or TypeError.
Unfence ==
  /\ fenceOut = <<>>
  /\ fenceOut' = <<unfence(unfencer, fenceIn)>>
  /\ UNCHANGED <<unfencer, fenceIn>>
  /\ UNCHANGED <<dvars, cvars, svars, wvars>>

\* C13: the result is the text without its first and last line when the
\* trimmed text starts with a fence and its last non-empty line is a closing
\* fence, and the unchanged text in every other case, a text that starts
\* with a fence and has no closing fence included.  (A text of one fence
\* line alone is left open here.)
C13_UnfenceIff ==
  Len(fenceOut) = 1 =>
    LET t == Trim(fenceIn)
        ls == SplitLines(t)
        n == Len(ls)
    IN IF ~StartsWith(t, Fence) THEN fenceOut[1] = fenceIn
       ELSE IF n = 1 THEN TRUE
       ELSE IF StartsWith(ls[n], Fence) THEN fenceOut[1] = JoinLines(SubSeq(ls, 2, n - 1))
       ELSE fenceOut[1] = fenceIn

\* C24: stripCodeFences returns a string for every text, a text of one fence
\* line included, and never throws, so that no file content aborts the
\* serialization once the output stream is open.
C24_UnfenceTotality ==
  /\ (unfencer = "stripCodeFences" /\ Len(fenceOut) = 1) => fenceOut[1] # TypeError
  /\ wPc # "threw"

\* C20: in each serializer, countFiles makes for every file the ignore
\* decision the walk makes, and when the count is at most MAX_FILES it is the
\* number of files the walk then writes.
C20_CountAgreesWithWalk ==
  wPc = "ended" =>
    /\ total = Len(emitted)
    /\ \A at \in FilePlaces :
         countIgnoresFile(EntryOf(at).name) <=> shouldIgnore(EntryOf(at).name, FALSE)

(***************************************************************************)
(* Claims about the recognizer on lines with artifacts                     *)
(***************************************************************************)

\* Header lines as a chat client leaves them: a zero-width space or a
\* byte-order mark before the opener, a zero-width space inside the opener
\* or inside the path, curly quotes around the path.
ZwBeforeHeader == <<"ZW">> \o slashHeader(PathA)
BomBeforeHeader == <<"BOM">> \o slashHeader(PathA)
ZwInsideOpener == <<"/", "ZW", "/">> \o Sp \o FileTok \o Sp \o PathA
ZwInsidePath == slashHeader(<<"a", "ZW", ".", "t">>)
CurlyQuotedPath == slashHeader(<<"LDQ">> \o PathA \o <<"RDQ">>)

ArtifactLinePool ==
  { ZwBeforeHeader, BomBeforeHeader, ZwInsideOpener, ZwInsidePath,
    CurlyQuotedPath, slashHeader(PathJson), BodyLine }

ArtifactDocuments == SeqsUpTo(ArtifactLinePool, MaxLines) \ {<<>>}

IsCurlyQuote(c) == c \in {"LDQ", "RDQ", "LSQ", "RSQ"}

\* C21: the recognizer sees the line as the artifact cleaner leaves it: what
\* parseFileHeader returns for a line is what it returns for the cleaned
\* line, so a header behind a zero-width character or a byte-order mark is
\* recognized, and no decoded path holds a zero-width character or a curly
\* quote.
C21_CleanedRecognition ==
  \A i \in 1..pos :
    /\ maybePaths[i] = parseFileHeader(variant, cleanArtifacts(lines[i]))
    /\ maybePaths[i] # NULL =>
         \A n \in 1..Len(maybePaths[i]) :
           ~IsZeroWidth(maybePaths[i][n]) /\ ~IsCurlyQuote(maybePaths[i][n])

(***************************************************************************)
(* Specifications                                                          *)
(***************************************************************************)

\* The deserializer on a document.
Init == DInit /\ CIdle /\ SIdle /\ WIdle /\ UIdle

Next == HeaderLine \/ ContentLine \/ OrphanLine \/ FinalFlush

Spec == Init /\ [][Next]_vars

\* The deserializer on a document whose lines carry artifacts.
ArtifactInit == DStart(ArtifactDocuments) /\ CIdle /\ SIdle /\ WIdle /\ UIdle

ArtifactSpec == ArtifactInit /\ [][Next]_vars

\* The artifact cleaner on a text.
CleanInit == CInit /\ DIdle /\ SIdle /\ WIdle /\ UIdle

CleanNext == CleanOnce \/ CleanAgain

CleanSpec == CleanInit /\ [][CleanNext]_vars

\* The comment stripper on a text.
StripInit == SInit /\ DIdle /\ CIdle /\ WIdle /\ UIdle

StripNext ==
  \/ StripRead \/ StripInBlock \/ StripSeparator \/ StripOpener \/ StripComment
  \/ StripBlank \/ StripKeep \/ StripWrite

StripSpec == StripInit /\ [][StripNext]_vars

\* The serializer on small and on large trees.
SerInit == WInit({"folder2txt"}, SmallTrees \cup FlatTrees \cup NestedTrees) /\ DIdle /\ CIdle /\ SIdle /\ UIdle

SerNext ==
  \/ CountFile \/ CountSkip \/ CountEnter \/ CountReturn
  \/ ProcessAbort \/ ProcessOpen
  \/ WalkFile \/ WalkSkip \/ WalkEnter \/ WalkLeave \/ WalkEnd

SerSpec == SerInit /\ [][SerNext]_vars

\* The serializer on a small tree, then the deserializer on its output.
RoundTripInit == WInit({"folder2txt"}, SmallTrees) /\ DIdle /\ CIdle /\ SIdle /\ UIdle

RoundTripNext ==
  \/ CountFile \/ CountSkip \/ CountEnter \/ CountReturn
  \/ ProcessOpen
  \/ WalkFile \/ WalkSkip \/ WalkEnter \/ WalkLeave \/ WalkEnd
  \/ ReadOutput
  \/ HeaderLine \/ ContentLine \/ OrphanLine \/ FinalFlush

RoundTripSpec == RoundTripInit /\ [][RoundTripNext]_vars

\* Both serializers on small trees, where the count cannot pass MAX_FILES
\* and ProcessAbort is never enabled.
SmallSerInit == WInit({"folder2txt", "part_000"}, SmallTrees) /\ DIdle /\ CIdle /\ SIdle /\ UIdle

SmallSerNext ==
  \/ CountFile \/ CountSkip \/ CountEnter \/ CountReturn
  \/ ProcessOpen
  \/ WalkFile \/ WalkSkip \/ WalkEnter \/ WalkLeave \/ WalkEnd

SmallSerSpec == SmallSerInit /\ [][SmallSerNext]_vars

\* An unfencing function on a text.
FenceInit == UInit /\ DIdle /\ CIdle /\ SIdle /\ WIdle

FenceNext == Unfence

FenceSpec == FenceInit /\ [][FenceNext]_vars

====
